---- MODULE Spec2Model ----
(***************************************************************************)
(* Model of the AI analysis service of icao-local-pkd-cpp                  *)
(* (services/ai-analysis): the job-state record, the background pipeline   *)
(* run (_run_analysis), the batch writer (_save_results) and the three     *)
(* entry points that start a run.                                          *)
(*                                                                         *)
(* Each pipeline run is a thread; Runs are the thread slots, handed out    *)
(* in increasing order.  A step of a run is one access to shared state:    *)
(* one critical section on _job_lock, or one commit on the result store.   *)
(* Progress values are scaled by ProgressOne (1.0 = ProgressOne).          *)
(***************************************************************************)
EXTENDS Integers, Sequences, FiniteSets, TLC

\* ---------------------------------------------------------------- bounds
MaxRuns == 2
MaxCerts == 3
BatchSize == 2

\* ------------------------------------------------------ program constants
ProgressOne == 10000
ProgressLoad == 1000
ProgressFeatures == 2500
ProgressDetector == 4500
ProgressExtensions == 5500
ProgressIssuer == 6500
ProgressRisk == 7500
MinSamplesDefault == 30
MinSamplesMLSC == 10
DefaultKeySize == 4096

Runs == 1..MaxRuns
NoRun == 0

model_version == "1.0.0"
GenericError == "Analysis failed. Check server logs for details."
NoError == "None"

VARIABLES
    _job_status,   \* the process-wide job-state record
    store,         \* table ai_analysis_result: a set of rows
    pc,            \* pc[r]: position of run r in _run_analysis
    df,            \* df[r]: the frame run r loaded (sequence of certificate rows)
    start,         \* start[r]: rows of run r committed so far (loop variable of _save_results)
    exc,           \* exc[r]: the exception run r caught, "none" when none was raised
    origin,        \* origin[r]: the entry point that started run r
    response       \* the answer of the latest start request

vars == <<_job_status, store, pc, df, start, exc, origin, response>>

\* ------------------------------------------------------------ input rows
\* public_key_size as the loader can deliver it: a number, NULL, or text
\* where a number was promised.
IntVal(v) == [kind |-> "int", val |-> v]
NullVal == [kind |-> "null", val |-> 0]
TextVal == [kind |-> "text", val |-> 0]

CertRow(fp, ct, ks) ==
    [fingerprint_sha256 |-> fp, certificate_type |-> ct, public_key_size |-> ks]

\* A frame of n rows with fingerprints 1..n, all of type ct; the last row
\* carries key size ks, the others 2048.
Frame(n, ct, ks) ==
    [i \in 1..n |-> CertRow(i, ct, IF i = n THEN ks ELSE IntVal(2048))]

\* What load_certificate_data can return to the job controller's runs.
Populations ==
    {Frame(n, "DSC", ks) : n \in 0..MaxCerts, ks \in {IntVal(2048), TextVal}}

\* ----------------------------------------------------------- job record
InitialJobStatus ==
    [status |-> "IDLE", progress |-> 0, total_certificates |-> 0,
     processed_certificates |-> 0, started_at |-> NoRun,
     completed_at |-> NoRun, error_message |-> NoError]

Init ==
    /\ _job_status = InitialJobStatus
    /\ store = {}
    /\ pc = [r \in Runs |-> "idle"]
    /\ df = [r \in Runs |-> << >>]
    /\ start = [r \in Runs |-> 0]
    /\ exc = [r \in Runs |-> "none"]
    /\ origin = [r \in Runs |-> "none"]
    /\ response = "none"

\* ------------------------------------------------------- pure functions
Min(a, b) == IF a <= b THEN a ELSE b

Indices(frame) == 1..Len(frame)

\* TYPE_CONFIG.get(ct, TYPE_CONFIG["DSC"])["min_samples"]
min_samples(ct) == IF ct = "MLSC" THEN MinSamplesMLSC ELSE MinSamplesDefault

TypeCount(frame, ct) ==
    Cardinality({i \in Indices(frame) : frame[i].certificate_type = ct})

UniqueTypes(frame) == {frame[i].certificate_type : i \in Indices(frame)}

\* The type subsets on which _fit_predict_by_type fits IsolationForest + LOF;
\* the others take the rule-based fallback.
FittedTypes(frame) ==
    {ct \in UniqueTypes(frame) : ~(TypeCount(frame, ct) < min_samples(ct))}

\* engineer_features: no statement of it catches an exception; arithmetic on
\* a key size that is text raises.  NULL becomes NaN and is zero-filled by
\* nan_to_num.  Feature 0 (key_size_normalized) is kept, scaled by 1000.
KeySizes(frame) ==
    {frame[i].public_key_size.val :
        i \in {j \in Indices(frame) : frame[j].public_key_size.kind = "int"}}

max_key_size(frame) ==
    LET m == IF KeySizes(frame) = {} THEN 0
             ELSE CHOOSE x \in KeySizes(frame) : \A y \in KeySizes(frame) : y <= x
    IN IF m > 0 THEN m ELSE DefaultKeySize

engineer_features(frame) ==
    IF \E i \in Indices(frame) : frame[i].public_key_size.kind = "text"
    THEN [raised |-> TRUE, features |-> << >>]
    ELSE [raised |-> FALSE,
          features |->
            [i \in Indices(frame) |->
                IF frame[i].public_key_size.kind = "null" THEN 0
                ELSE (frame[i].public_key_size.val * 1000) \div max_key_size(frame)]]

\* The values dict _save_results builds for row i of run r.  scores stands
\* for every column the run computes (scores, levels, factors, feature
\* vector, analyzed_at); id is the fresh uuid4.
ResultValues(r, frame, i) ==
    [id |-> <<r, i>>,
     certificate_fingerprint |-> frame[i].fingerprint_sha256,
     certificate_type |-> frame[i].certificate_type,
     scores |-> r,
     analysis_version |-> model_version]

\* A conflict clause that also overwrites certificate_type and country_code.
KeptOnConflictIdOnly == {"id", "certificate_fingerprint"}

\* Columns in the INSERT list that are absent from the UPDATE SET list.
KeptOnConflict == {"id", "certificate_fingerprint", "certificate_type", "country_code"}

\* A plain INSERT with no conflict clause and no unique constraint.
UpsertInsertOnly(st, v) == st \cup {v}

\* INSERT ... ON CONFLICT (certificate_fingerprint) DO UPDATE SET ... /
\* MERGE INTO ... WHEN MATCHED THEN UPDATE ... WHEN NOT MATCHED THEN INSERT
\* The columns the UPDATE branch does not assign keep their stored value;
\* every other column of the row takes the new value.
Upsert(st, v) ==
    IF \E row \in st : row.certificate_fingerprint = v.certificate_fingerprint
    THEN {IF row.certificate_fingerprint = v.certificate_fingerprint
          THEN [c \in DOMAIN row |-> IF c \in KeptOnConflict THEN row[c] ELSE v[c]]
          ELSE row : row \in st}
    ELSE st \cup {v}

\* for start in range(0, n, batch_size): end = min(start + batch_size, n)
BatchEnd(s, n) == Min(s + BatchSize, n)

RECURSIVE UpsertRows(_, _, _, _, _)
\* for i in range(start, end): one upsert per row (rows lo+1..hi, 1-based)
UpsertRows(st, r, frame, lo, hi) ==
    IF lo >= hi THEN st
    ELSE UpsertRows(Upsert(st, ResultValues(r, frame, lo + 1)), r, frame, lo + 1, hi)

\* A loop bound that leaves out a last, partial batch.
MoreBatchesWholeOnly(end, n) == end + BatchSize <= n

\* range(0, n, batch_size) yields another start while start < n
MoreBatches(end, n) == end < n

\* 0.75 + 0.25 * (end / n)
BatchProgress(end, n) == ProgressRisk + ((ProgressOne - ProgressRisk) * end) \div n

\* ------------------------------------------------------------ entry points
InFlight(r) == pc[r] \notin {"idle", "completed", "failed"}

IdleRuns == {r \in Runs : pc[r] = "idle"}

\* Thread slots are handed out in increasing order.
NextRun == CHOOSE r \in IdleRuns : \A q \in IdleRuns : r <= q

\* threading.Thread(target=_run_analysis).start(), or the scheduler's worker
StartThread(how) ==
    /\ IdleRuns # {}
    /\ pc' = [pc EXCEPT ![NextRun] = "start"]
    /\ origin' = [origin EXCEPT ![NextRun] = how]

\* The thread of run r returns: its locals are gone.
Return(r, outcome) ==
    /\ pc' = [pc EXCEPT ![r] = outcome]
    /\ df' = [df EXCEPT ![r] = << >>]
    /\ start' = [start EXCEPT ![r] = 0]
    /\ exc' = [exc EXCEPT ![r] = "none"]
    /\ origin' = [origin EXCEPT ![r] = "none"]

\* A handler that records the rejected attempt in the job state.
trigger_analysisTouchesJob ==
    IF _job_status.status = "RUNNING"
    THEN /\ response' = "conflict"
         /\ _job_status' = [_job_status EXCEPT !.error_message = GenericError]
         /\ UNCHANGED <<store, pc, df, start, exc, origin>>
    ELSE /\ StartThread("request")
         /\ response' = "accepted"
         /\ UNCHANGED <<_job_status, store, df, start, exc>>

\* POST /analyze
trigger_analysis ==
    IF _job_status.status = "RUNNING"
    THEN /\ response' = "conflict"
         /\ UNCHANGED <<_job_status, store, pc, df, start, exc, origin>>
    ELSE /\ StartThread("request")
         /\ response' = "accepted"
         /\ UNCHANGED <<_job_status, store, df, start, exc>>

\* POST /analyze/incremental
trigger_incremental_analysis ==
    IF _job_status.status = "RUNNING"
    THEN /\ response' = "conflict"
         /\ UNCHANGED <<_job_status, store, pc, df, start, exc, origin>>
    ELSE /\ StartThread("request")
         /\ response' = "accepted"
         /\ UNCHANGED <<_job_status, store, df, start, exc>>

\* The cron job: calls _run_analysis without looking at the job state.  The
\* scheduler runs one instance of the job at a time.
_run_scheduled_analysis ==
    /\ \A r \in Runs : ~(origin[r] = "scheduler" /\ InFlight(r))
    /\ StartThread("scheduler")
    /\ UNCHANGED <<_job_status, store, df, start, exc, response>>

\* -------------------------------------------------------- _run_analysis
\* with _job_lock: status = RUNNING, progress = 0.0, started_at = now, ...
SetRunning(r) ==
    /\ pc[r] = "start"
    /\ _job_status' = [_job_status EXCEPT !.status = "RUNNING", !.progress = 0,
                                          !.started_at = r, !.completed_at = NoRun,
                                          !.error_message = NoError]
    /\ pc' = [pc EXCEPT ![r] = "load"]
    /\ UNCHANGED <<store, df, start, exc, origin, response>>

Raise(r, what) ==
    /\ pc' = [pc EXCEPT ![r] = "except"]
    /\ exc' = [exc EXCEPT ![r] = what]

\* Step 1: df = load_certificate_data(sync_engine); total = len(df)
LoadFrom(r, populations) ==
    /\ pc[r] = "load"
    /\ \/ /\ Raise(r, "DataSourceError")
          /\ UNCHANGED <<_job_status, df>>
       \/ \E frame \in populations :
            /\ df' = [df EXCEPT ![r] = frame]
            /\ _job_status' = [_job_status EXCEPT !.total_certificates = Len(frame),
                                                  !.progress = ProgressLoad]
            /\ pc' = [pc EXCEPT ![r] = IF Len(frame) = 0 THEN "empty" ELSE "features"]
            /\ UNCHANGED exc
    /\ UNCHANGED <<store, start, origin, response>>

\* if total == 0: status = COMPLETED, progress = 1.0, completed_at = now
CompleteEmpty(r) ==
    /\ pc[r] = "empty"
    /\ _job_status' = [_job_status EXCEPT !.status = "COMPLETED",
                                          !.progress = ProgressOne,
                                          !.completed_at = r]
    /\ Return(r, "completed")
    /\ UNCHANGED <<store, response>>

\* A stage that only computes, followed by its progress checkpoint.
Checkpoint(r, from, to, progress) ==
    /\ pc[r] = from
    /\ _job_status' = [_job_status EXCEPT !.progress = progress]
    /\ pc' = [pc EXCEPT ![r] = to]
    /\ UNCHANGED exc

\* Step 2: metadata, features = engineer_features(df)
Features(r) ==
    /\ pc[r] = "features"
    /\ IF engineer_features(df[r]).raised
       THEN Raise(r, "FeatureError") /\ UNCHANGED _job_status
       ELSE Checkpoint(r, "features", "detect", ProgressFeatures)
    /\ UNCHANGED <<store, df, start, origin, response>>

\* Step 3: detector.fit_predict(features, cert_types); iso.fit / lof.fit_predict
\* are called for the fitted types only, and nothing catches what they raise.
Detect(r) ==
    /\ pc[r] = "detect"
    /\ \/ Checkpoint(r, "detect", "extensions", ProgressDetector)
       \/ /\ FittedTypes(df[r]) # {}
          /\ Raise(r, "ModelError")
          /\ UNCHANGED _job_status
    /\ UNCHANGED <<store, df, start, origin, response>>

\* Step 4: check_extension_compliance per row
Extensions(r) ==
    /\ Checkpoint(r, "extensions", "issuer", ProgressExtensions)
    /\ UNCHANGED <<store, df, start, origin, response>>

\* Step 5: build_issuer_profiles, compute_issuer_anomaly_scores
Issuer(r) ==
    /\ Checkpoint(r, "issuer", "risk", ProgressIssuer)
    /\ UNCHANGED <<store, df, start, origin, response>>

\* Step 6: compute_risk_scores; then _save_results is entered with start = 0
Risk(r) ==
    /\ Checkpoint(r, "risk", "save", ProgressRisk)
    /\ start' = [start EXCEPT ![r] = 0]
    /\ UNCHANGED <<store, df, origin, response>>

\* ------------------------------------------------------- _save_results
\* One batch: the upserts of rows start..end and conn.commit().  When an
\* upsert or the commit raises, the connection is closed without commit and
\* the batch is rolled back.
SaveBatch(r) ==
    /\ pc[r] = "save"
    /\ \/ /\ store' = UpsertRows(store, r, df[r], start[r],
                                 BatchEnd(start[r], Len(df[r])))
          /\ pc' = [pc EXCEPT ![r] = "saved"]
          /\ UNCHANGED exc
       \/ /\ Raise(r, "WriteError")
          /\ UNCHANGED store
    /\ UNCHANGED <<_job_status, df, start, origin, response>>

\* with _job_lock: processed_certificates = end; progress = 0.75 + 0.25*(end/n)
BatchDone(r) ==
    /\ pc[r] = "saved"
    /\ LET n == Len(df[r])
           end == BatchEnd(start[r], n)
       IN /\ _job_status' = [_job_status EXCEPT !.processed_certificates = end,
                                                !.progress = BatchProgress(end, n)]
          /\ start' = [start EXCEPT ![r] = end]
          /\ pc' = [pc EXCEPT ![r] = IF MoreBatches(end, n) THEN "save" ELSE "finish"]
    /\ UNCHANGED <<store, df, exc, origin, response>>

\* with _job_lock: status = COMPLETED, progress = 1.0, processed = total
Complete(r) ==
    /\ pc[r] = "finish"
    /\ _job_status' = [_job_status EXCEPT !.status = "COMPLETED",
                                          !.progress = ProgressOne,
                                          !.processed_certificates = Len(df[r]),
                                          !.completed_at = r]
    /\ Return(r, "completed")
    /\ UNCHANGED <<store, response>>

\* A handler that catches only part of what the stages raise: a write
\* error then ends the thread without touching the job state.
ExceptNotWriteError(r) ==
    /\ pc[r] = "except"
    /\ exc[r] # "WriteError"
    /\ _job_status' = [_job_status EXCEPT !.status = "FAILED",
                                          !.error_message = GenericError]
    /\ Return(r, "failed")
    /\ UNCHANGED <<store, response>>

\* A handler that publishes the text of the exception: error_message = str(e).
ExceptLeaksMessage(r) ==
    /\ pc[r] = "except"
    /\ _job_status' = [_job_status EXCEPT !.status = "FAILED",
                                          !.error_message = exc[r]]
    /\ Return(r, "failed")
    /\ UNCHANGED <<store, response>>

\* except Exception: status = FAILED, error_message = generic text
Except(r) ==
    /\ pc[r] = "except"
    /\ _job_status' = [_job_status EXCEPT !.status = "FAILED",
                                          !.error_message = GenericError]
    /\ Return(r, "failed")
    /\ UNCHANGED <<store, response>>

\* One step of the thread of run r, the loader answering from populations.
RunStep(r, populations) ==
    \/ SetRunning(r)
    \/ LoadFrom(r, populations)
    \/ CompleteEmpty(r)
    \/ Features(r)
    \/ Detect(r)
    \/ Extensions(r)
    \/ Issuer(r)
    \/ Risk(r)
    \/ SaveBatch(r)
    \/ BatchDone(r)
    \/ Complete(r)
    \/ Except(r)

_run_analysis(r) == RunStep(r, Populations)

Next ==
    \/ trigger_analysis
    \/ trigger_incremental_analysis
    \/ _run_scheduled_analysis
    \/ \E r \in Runs : _run_analysis(r)

Spec == Init /\ [][Next]_vars

\* Every started thread is scheduled again and again.
LiveSpec == Spec /\ \A r \in Runs : WF_vars(_run_analysis(r))

\* ------------------------------------------- one run at a time, rich input
\* The empty frame, frames that reach the detector's fitted path (an MLSC
\* subset of min_samples rows) and frames whose last row has a NULL or a
\* text key size.
RichPopulations ==
    {Frame(n, ct, ks) :
        n \in {0, 1, MinSamplesMLSC - 1, MinSamplesMLSC},
        ct \in {"DSC", "MLSC"},
        ks \in {IntVal(2048), NullVal, TextVal}}

Quiet == \A r \in Runs : ~InFlight(r)

\* The operator starts a run only when none is in flight.
PipelineNext ==
    \/ Quiet /\ trigger_analysis
    \/ \E r \in Runs : RunStep(r, RichPopulations)

PipelineSpec == Init /\ [][PipelineNext]_vars

\* =================================================== the scoring stages
\* Scores in [0, 1] are integers in units of 1e-7 (ScoreOne is 1.0), risk
\* points are integers in units of 1e-3 (RiskMax is 100.0 points), feature
\* values are in units of 1e-3 and dates are day numbers.
ScoreOne == 10000000
RiskMax == 100000
FeatureOne == 1000
Point == RiskMax \div 100

Max(a, b) == IF a >= b THEN a ELSE b

Abs(a) == IF a >= 0 THEN a ELSE 0 - a

\* round(x, ndigits) on a non-negative value: to the nearest multiple of
\* unit, a tie going to the even multiple.
RoundHalfEven(x, unit) ==
    LET q == x \div unit
        rem == x % unit
    IN IF 2 * rem < unit THEN q * unit
       ELSE IF 2 * rem > unit THEN (q + 1) * unit
       ELSE IF q % 2 = 0 THEN q * unit ELSE (q + 1) * unit

RECURSIVE LongDivision(_, _, _)
\* The decimal digits of rem / c (rem < c), the first one worth place.
LongDivision(rem, c, place) ==
    IF place = 0 THEN 0
    ELSE ((rem * 10) \div c) * place
            + LongDivision((rem * 10) % c, c, place \div 10)

\* The quotient a / c of two non-negative numbers, as a score.
Ratio(a, c) == (a \div c) * ScoreOne + LongDivision(a % c, c, ScoreOne \div 10)

\* ------------------------------------------------- certificate rows
\* The columns of a loaded row that the scoring stages read.  A DN is kept
\* as its C= attribute and its number of fields; key_usage as the set of
\* names in the string; the other extension columns as present / absent.
DN(country, fields) == [country |-> country, fields |-> fields]

NoDN == DN("", 0)

SoundCertificate ==
    [signature_algorithm |-> "sha384WithRSAEncryption",
     public_key_algorithm |-> "RSA", public_key_size |-> IntVal(4096),
     icao_compliant |-> "true", validation_status |-> "VALID",
     not_before |-> IntVal(19000), not_after |-> IntVal(21000),
     key_usage |-> {"digitalSignature"}, extended_key_usage |-> TRUE,
     subject_key_identifier |-> TRUE, authority_key_identifier |-> TRUE,
     crl_distribution_points |-> TRUE, ocsp_responder_url |-> TRUE,
     is_ca |-> FALSE, subject_dn |-> DN("KR", 3), issuer_dn |-> "C=KR,CN=CSCA",
     country_code |-> "KR"]

\* SHA-1 and a 224-bit curve, otherwise in order; expires within the year.
WeakCertificate ==
    [SoundCertificate EXCEPT !.signature_algorithm = "ecdsa-with-SHA1",
                             !.public_key_algorithm = "ECDSA",
                             !.public_key_size = IntVal(224),
                             !.not_after = IntVal(20200)]

\* Everything a certificate can get wrong, filed under another country.
BrokenCertificate ==
    [signature_algorithm |-> "sha1WithRSAEncryption",
     public_key_algorithm |-> "RSA", public_key_size |-> IntVal(1024),
     icao_compliant |-> "false", validation_status |-> "EXPIRED",
     not_before |-> IntVal(8000), not_after |-> IntVal(19990),
     key_usage |-> {}, extended_key_usage |-> FALSE,
     subject_key_identifier |-> FALSE, authority_key_identifier |-> FALSE,
     crl_distribution_points |-> FALSE, ocsp_responder_url |-> FALSE,
     is_ca |-> TRUE, subject_dn |-> DN("KR", 1), issuer_dn |-> "C=KR,CN=CSCA",
     country_code |-> "FR"]

\* A row whose optional columns are all NULL.
BlankCertificate ==
    [signature_algorithm |-> "", public_key_algorithm |-> "",
     public_key_size |-> NullVal,
     icao_compliant |-> "null", validation_status |-> "PENDING",
     not_before |-> NullVal, not_after |-> NullVal,
     key_usage |-> {}, extended_key_usage |-> FALSE,
     subject_key_identifier |-> FALSE, authority_key_identifier |-> FALSE,
     crl_distribution_points |-> FALSE, ocsp_responder_url |-> FALSE,
     is_ca |-> FALSE, subject_dn |-> NoDN, issuer_dn |-> "",
     country_code |-> "KR"]

CertificateKinds ==
    {SoundCertificate, WeakCertificate, BrokenCertificate, BlankCertificate}

\* A population of n rows of type ct with fingerprints 1..n: the last row
\* is of kind last, the others are sound and expire on consecutive days.
ScoringFrame(n, ct, last) ==
    [i \in 1..n |->
        [fingerprint_sha256 |-> i, certificate_type |-> ct]
            @@ (IF i = n THEN last
                ELSE [SoundCertificate EXCEPT !.not_after = IntVal(21000 + i)])]

\* -------------------------------------------------- engineer_features
IsNull(v) == v.kind = "null"

\* days_until = (not_after - now) / 86400 seconds, 0.0 without not_after
days_until(row, now) ==
    IF IsNull(row.not_after) THEN 0 ELSE row.not_after.val - now

\* _validity_days, 0.0 when either date is missing
validity_days(row) ==
    IF IsNull(row.not_before) \/ IsNull(row.not_after) THEN 0
    ELSE row.not_after.val - row.not_before.val

\* features[i, 6] = max(days_until / 365.25, -5.0)
days_until_expiry(row, now) ==
    Max((days_until(row, now) * 4 * FeatureOne) \div 1461, 0 - 5 * FeatureOne)

\* features[i, 7]
is_expired(row, now) == IF days_until(row, now) < 0 THEN FeatureOne ELSE 0

\* features[i, 32] = min(max(elapsed / validity_days, 0.0), 2.0)
cert_age_ratio(row, now) ==
    IF ~IsNull(row.not_before) /\ validity_days(row) > 0
    THEN Min(Max(((now - row.not_before.val) * FeatureOne) \div validity_days(row), 0),
             2 * FeatureOne)
    ELSE 0

\* The feature matrix of a run that executes at time now: of the 45 columns
\* the key size column and the three columns computed from the clock.
FeatureMatrix(frame, now) ==
    [i \in Indices(frame) |->
        <<engineer_features(frame).features[i],
          days_until_expiry(frame[i], now),
          is_expired(frame[i], now),
          cert_age_ratio(frame[i], now)>>]

\* --------------------------------------------------- anomaly_detector
\* The row indices of frame that carry type ct: np.where(cert_types == ct)
TypeIndices(frame, ct) == {i \in Indices(frame) : frame[i].certificate_type = ct}

\* The k-th smallest value (k = 1 is the minimum) of col over the rows idx.
KthSmallest(col, idx, k) ==
    CHOOSE x \in {col[i] : i \in idx} :
        /\ Cardinality({i \in idx : col[i] < x}) < k
        /\ Cardinality({i \in idx : col[i] <= x}) >= k

\* Twice np.median(col): the middle value counted twice, or the sum of the
\* two middle values.
Median2(col, idx) ==
    LET n == Cardinality(idx)
    IN IF n % 2 = 1 THEN 2 * KthSmallest(col, idx, (n + 1) \div 2)
       ELSE KthSmallest(col, idx, n \div 2) + KthSmallest(col, idx, n \div 2 + 1)

Columns(features, idx) == 1..Len(features[CHOOSE i \in idx : TRUE])

\* Twice |features[i, j] - median[j]|
AbsDev2(features, idx, i, j) ==
    Abs(2 * features[i][j] - Median2([k \in idx |-> features[k][j]], idx))

\* Four times mad[j]; mad[mad < 1e-10] = 1.0
Mad4(features, idx, j) ==
    LET m == Median2([k \in idx |-> AbsDev2(features, idx, k, j)], idx)
    IN IF m = 0 THEN 4 * FeatureOne ELSE m

\* np.sort(deviations)[-10:]
TopDeviations == 10

\* deviations[j] = |features[i, j] - median[j]| / mad[j].  A deviation of
\* TopDeviations * 5 or more alone puts the mean of the top deviations at
\* 5.0 or more, where the score is cut to 1.0; it is kept at that value.
Deviation(features, idx, i, j) ==
    LET a == 2 * AbsDev2(features, idx, i, j)
        c == Mad4(features, idx, j)
    IN IF a >= TopDeviations * 5 * c THEN TopDeviations * 5 * ScoreOne
       ELSE Ratio(a, c)

RECURSIVE SumLargest(_, _, _)
\* The sum of the k largest values of dev over the columns cols.
SumLargest(dev, cols, k) ==
    IF k = 0 \/ cols = {} THEN 0
    ELSE LET j == CHOOSE c \in cols : \A d \in cols : dev[d] <= dev[c]
         IN dev[j] + SumLargest(dev, cols \ {j}, k - 1)

\* scores[i] = min(np.mean(top_devs) / 5.0, 1.0)
_rule_based_scoring(features, idx, i) ==
    LET cols == Columns(features, idx)
        k == Min(TopDeviations, Cardinality(cols))
        dev == [j \in cols |-> Deviation(features, idx, i, j)]
    IN Min((SumLargest(dev, cols, k) \div k) \div 5, ScoreOne)

\* (scores - smin) / (smax - smin), zeros when smax - smin < 1e-10
_normalize_scores(scores, idx, i) ==
    LET smin == CHOOSE x \in {scores[k] : k \in idx} : \A k \in idx : x <= scores[k]
        smax == CHOOSE x \in {scores[k] : k \in idx} : \A k \in idx : x >= scores[k]
    IN IF smax = smin THEN 0 ELSE Ratio(scores[i] - smin, smax - smin)

\* What the fitted models return for a subset, as the run sees it:
\* iso.decision_function(scaled) and lof.negative_outlier_factor_, here in
\* units in which the largest outlier measure is ScoreOne.  Row 1 is the
\* least and row 2 the most outlying; the last row lies at x (forest) and y
\* (LOF) between them.
ModelOutput(n, x, y) ==
    [if_raw |-> [i \in 1..n |-> IF i = n THEN 0 - x
                                ELSE IF i = 2 THEN 0 - ScoreOne ELSE 0],
     lof_raw |-> [i \in 1..n |-> IF i = n THEN 0 - y - 1
                                 ELSE IF i = 2 THEN 0 - ScoreOne - 1 ELSE 0 - 1]]

\* _fit_predict_by_type for row i: [combined, if_score, lof_score]
_fit_predict_by_type(frame, features, ml, i) ==
    LET ct == frame[i].certificate_type
        idx == TypeIndices(frame, ct)
    IN IF Cardinality(idx) < min_samples(ct)
       THEN LET type_combined == _rule_based_scoring(features, idx, i)
            IN [combined |-> type_combined, if_score |-> type_combined,
                lof_score |-> type_combined]
       ELSE LET type_if == _normalize_scores([k \in idx |-> 0 - ml.if_raw[k]], idx, i)
                type_lof == _normalize_scores([k \in idx |-> 0 - ml.lof_raw[k] - 1], idx, i)
            IN [combined |-> (6 * type_if + 4 * type_lof) \div 10,
                if_score |-> type_if, lof_score |-> type_lof]

\* classify_anomaly
classify_anomaly(score) ==
    IF score >= (7 * ScoreOne) \div 10 THEN "ANOMALOUS"
    ELSE IF score >= (3 * ScoreOne) \div 10 THEN "SUSPICIOUS"
    ELSE "NORMAL"

\* --------------------------------------------- extension_rules_engine
\* A table in which a DSC need not carry authority_key_identifier.
EXPECTED_EXTENSIONSLenientDSC ==
    [CSCA |-> [required |-> {"key_usage", "subject_key_identifier", "is_ca"},
               recommended |-> {"authority_key_identifier", "crl_distribution_points"},
               forbidden_is_ca |-> {FALSE},
               required_key_usage_bits |-> {"keyCertSign", "cRLSign"}],
     DSC |-> [required |-> {"key_usage"},
              recommended |-> {"crl_distribution_points", "ocsp_responder_url"},
              forbidden_is_ca |-> {TRUE},
              required_key_usage_bits |-> {"digitalSignature"}],
     MLSC |-> [required |-> {"extended_key_usage"},
               recommended |-> {"authority_key_identifier", "subject_key_identifier"},
               forbidden_is_ca |-> {},
               required_key_usage_bits |-> {}],
     DSC_NC |-> [required |-> {},
                 recommended |-> {"authority_key_identifier", "key_usage"},
                 forbidden_is_ca |-> {},
                 required_key_usage_bits |-> {}]]

\* EXPECTED_EXTENSIONS, forbidden_flags as the forbidden values of is_ca
EXPECTED_EXTENSIONS ==
    [CSCA |-> [required |-> {"key_usage", "subject_key_identifier", "is_ca"},
               recommended |-> {"authority_key_identifier", "crl_distribution_points"},
               forbidden_is_ca |-> {FALSE},
               required_key_usage_bits |-> {"keyCertSign", "cRLSign"}],
     DSC |-> [required |-> {"key_usage", "authority_key_identifier"},
              recommended |-> {"crl_distribution_points", "ocsp_responder_url"},
              forbidden_is_ca |-> {TRUE},
              required_key_usage_bits |-> {"digitalSignature"}],
     MLSC |-> [required |-> {"extended_key_usage"},
               recommended |-> {"authority_key_identifier", "subject_key_identifier"},
               forbidden_is_ca |-> {},
               required_key_usage_bits |-> {}],
     DSC_NC |-> [required |-> {},
                 recommended |-> {"authority_key_identifier", "key_usage"},
                 forbidden_is_ca |-> {},
                 required_key_usage_bits |-> {}]]

\* _has_field, and for is_ca _safe_bool(row.get("is_ca"))
HasField(row, field) ==
    IF field = "key_usage" THEN row.key_usage # {}
    ELSE IF field = "is_ca" THEN row.is_ca
    ELSE row[field]

\* A score that adds up the violations without the cut at 1.0.
structural_scoreUncut(row) ==
    LET ct == row.certificate_type
        profile == IF ct \in DOMAIN EXPECTED_EXTENSIONS
                   THEN EXPECTED_EXTENSIONS[ct] ELSE EXPECTED_EXTENSIONS["DSC_NC"]
        missing_required == {f \in profile.required : ~HasField(row, f)}
        missing_recommended == {f \in profile.recommended : ~HasField(row, f)}
        forbidden_violations == {v \in profile.forbidden_is_ca : row.is_ca = v}
        key_usage_violations == profile.required_key_usage_bits \ row.key_usage
        score == Cardinality(missing_required) * ((25 * ScoreOne) \div 100)
                 + Cardinality(forbidden_violations) * ((30 * ScoreOne) \div 100)
                 + Cardinality(key_usage_violations) * ((15 * ScoreOne) \div 100)
                 + Cardinality(missing_recommended) * ((5 * ScoreOne) \div 100)
    IN RoundHalfEven(score, ScoreOne \div 10000)

\* check_extension_compliance(row)["structural_score"]
structural_score(row) ==
    LET ct == row.certificate_type
        profile == IF ct \in DOMAIN EXPECTED_EXTENSIONS
                   THEN EXPECTED_EXTENSIONS[ct] ELSE EXPECTED_EXTENSIONS["DSC_NC"]
        missing_required == {f \in profile.required : ~HasField(row, f)}
        missing_recommended == {f \in profile.recommended : ~HasField(row, f)}
        forbidden_violations == {v \in profile.forbidden_is_ca : row.is_ca = v}
        key_usage_violations == profile.required_key_usage_bits \ row.key_usage
        score == Cardinality(missing_required) * ((25 * ScoreOne) \div 100)
                 + Cardinality(forbidden_violations) * ((30 * ScoreOne) \div 100)
                 + Cardinality(key_usage_violations) * ((15 * ScoreOne) \div 100)
                 + Cardinality(missing_recommended) * ((5 * ScoreOne) \div 100)
    IN RoundHalfEven(Min(score, ScoreOne), ScoreOne \div 10000)

\* ----------------------------------------------------- issuer_profiler
\* The rows of the group of issuer_dn; rows without issuer_dn get no profile.
IssuerGroup(frame, issuer_dn) == {i \in Indices(frame) : frame[i].issuer_dn = issuer_dn}

\* value_counts().index[0]: the most frequent value of column over the rows
\* idx, the one met first among equally frequent ones.
Dominant(frame, idx, column) ==
    LET count(v) == Cardinality({i \in idx : frame[i][column] = v})
        first(v) == CHOOSE i \in idx : frame[i][column] = v
                        /\ \A k \in idx : frame[k][column] = v => i <= k
        best == CHOOSE i \in idx :
                    \A k \in idx :
                        \/ count(frame[k][column]) < count(frame[i][column])
                        \/ /\ count(frame[k][column]) = count(frame[i][column])
                           /\ first(frame[i][column]) <= first(frame[k][column])
    IN frame[best][column]

RECURSIVE SumOver(_, _)
SumOver(f, idx) ==
    IF idx = {} THEN 0
    ELSE LET i == CHOOSE k \in idx : TRUE IN f[i] + SumOver(f, idx \ {i})

\* The profile build_issuer_profiles makes of one issuer.  Key sizes are counted in units of
\* 32 bits (every key size of the populations is a multiple); the profile
\* keeps n, the sum S of the sizes and Q = sum of (n * size - S)^2, from
\* which avg = S / n and std^2 = Q / (n^2 * (n - 1)).
IssuerProfile(frame, issuer_dn) ==
    LET group == IssuerGroup(frame, issuer_dn)
        sized == {i \in group : ~IsNull(frame[i].public_key_size)}
        m == Cardinality(sized)
        size == [i \in sized |-> frame[i].public_key_size.val \div 32]
        total == SumOver(size, sized)
        icao_ok == Cardinality({i \in group : frame[i].icao_compliant \in {"true", "1"}})
        expired == Cardinality({i \in group :
                        frame[i].validation_status \in {"EXPIRED", "EXPIRED_VALID"}})
        n == Cardinality(group)
    IN [cert_count |-> n,
        dominant_algorithm |-> Dominant(frame, group, "signature_algorithm"),
        algorithm_diversity |->
            Cardinality({frame[i].signature_algorithm : i \in group}),
        key_count |-> m,
        key_sum |-> total,
        key_spread |-> SumOver([i \in sized |-> (m * size[i] - total) * (m * size[i] - total)],
                               sized),
        country_count |-> Cardinality({frame[i].country_code : i \in group}),
        dominant_country |-> Dominant(frame, group, "country_code"),
        anomaly_proxy |->
            RoundHalfEven(Ratio(2 * n - 2 * icao_ok + expired, 2 * n),
                          ScoreOne \div 10000)]

\* issuer_stats of engineer_features: the pairs <<issuer_dn, anomaly_rate>>,
\* anomaly_rate = round(1.0 - icao_ok + expired * 0.5, 4) over the issuer's rows
issuer_stats(frame) ==
    {<<issuer_dn,
       LET group == IssuerGroup(frame, issuer_dn)
           n == Cardinality(group)
           icao_ok == Cardinality({i \in group :
                            frame[i].icao_compliant \in {"true", "1"}})
           expired == Cardinality({i \in group :
                            frame[i].validation_status \in {"EXPIRED", "EXPIRED_VALID"}})
       IN RoundHalfEven(Ratio(2 * n - 2 * icao_ok + expired, 2 * n),
                        ScoreOne \div 10000)>> :
        issuer_dn \in {frame[i].issuer_dn : i \in Indices(frame)} \ {""}}

\* features[i, 26] = issuer_info.get("anomaly_rate", 0.5)
issuer_anomaly_rate(frame, stats, i) ==
    IF \E p \in stats : p[1] = frame[i].issuer_dn
    THEN (CHOOSE p \in stats : p[1] = frame[i].issuer_dn)[2]
    ELSE ScoreOne \div 2

\* build_issuer_profiles(df): the pairs <<issuer_dn, profile>>
build_issuer_profiles(frame) ==
    {<<issuer_dn, IssuerProfile(frame, issuer_dn)>> :
        issuer_dn \in {frame[i].issuer_dn : i \in Indices(frame)} \ {""}}

\* compute_issuer_anomaly_scores(df, profiles)[i]
compute_issuer_anomaly_scores(frame, profiles, i) ==
    LET row == frame[i]
    IN IF profiles = {} THEN 0
       ELSE IF row.issuer_dn = "" THEN (3 * ScoreOne) \div 10
       ELSE LET profile == (CHOOSE p \in profiles : p[1] = row.issuer_dn)[2]
                m == profile.key_count
                d == IF IsNull(row.public_key_size) THEN 0
                     ELSE m * (row.public_key_size.val \div 32) - profile.key_sum
                \* avg_ks > 0 and std_ks > 0 and key_size > 0
                comparable == /\ m > 1 /\ profile.key_sum > 0 /\ profile.key_spread > 0
                              /\ ~IsNull(row.public_key_size)
                              /\ row.public_key_size.val > 0
                \* z = |key_size - avg| / std > t  iff  d^2 (m - 1) > t^2 Q
                rare == IF profile.cert_count < 3 THEN (15 * ScoreOne) \div 100
                        ELSE IF profile.cert_count < 10 THEN (5 * ScoreOne) \div 100
                        ELSE 0
                key_dev == IF comparable /\ d * d * (m - 1) > 9 * profile.key_spread
                           THEN (2 * ScoreOne) \div 10
                           ELSE IF comparable /\ d * d * (m - 1) > 4 * profile.key_spread
                           THEN ScoreOne \div 10
                           ELSE 0
                alg == IF /\ row.signature_algorithm # ""
                          /\ row.signature_algorithm # profile.dominant_algorithm
                          /\ profile.algorithm_diversity <= 2
                       THEN (15 * ScoreOne) \div 100 ELSE 0
                proxy == (profile.anomaly_proxy * 2) \div 10
                country == IF /\ row.country_code # ""
                              /\ row.country_code # profile.dominant_country
                              /\ profile.country_count = 1
                           THEN (15 * ScoreOne) \div 100 ELSE 0
            IN Min(rare + key_dev + alg + proxy + country, ScoreOne)

\* -------------------------------------------------------- risk_scorer
\* ALGORITHM_RISK.get(sig_alg, 15), in points
ALGORITHM_RISK(sig_alg) ==
    IF sig_alg \in {"sha1WithRSAEncryption", "ecdsa-with-SHA1"} THEN 40
    ELSE IF sig_alg \in {"sha256WithRSAEncryption", "ecdsa-with-SHA256"} THEN 5
    ELSE IF sig_alg \in {"sha384WithRSAEncryption", "ecdsa-with-SHA384",
                         "sha512WithRSAEncryption", "ecdsa-with-SHA512"} THEN 0
    ELSE IF sig_alg = "id-RSASSA-PSS" THEN 2
    ELSE 15

\* Key size risk, in points.  A NULL key size is NaN in the frame and
\* compares false with every bound.
key_size_risk(row) ==
    LET known == ~IsNull(row.public_key_size)
        key_size == row.public_key_size.val
    IN IF row.public_key_algorithm \in {"RSA", "rsaEncryption"}
       THEN IF known /\ key_size < 2048 THEN 40
            ELSE IF known /\ key_size < 3072 THEN 10
            ELSE IF known /\ key_size < 4096 THEN 3
            ELSE 0
       ELSE IF row.public_key_algorithm \in {"ECDSA", "EC", "id-ecPublicKey"}
       THEN IF known /\ key_size < 256 THEN 35
            ELSE IF known /\ key_size < 384 THEN 5
            ELSE 0
       ELSE 15

compliance_risk(row) ==
    IF row.icao_compliant \in {"false", "0"} THEN 20
    ELSE IF row.icao_compliant = "null" THEN 5
    ELSE 0

\* A validity risk that counts the last 30 days as expired.
validity_riskSoonIsExpired(row, now) ==
    IF IsNull(row.not_after) THEN 5
    ELSE IF row.not_after.val - now < 30 THEN 15
    ELSE IF row.not_after.val - now < 90 THEN 5
    ELSE 0

\* days_left = (not_after - Timestamp.now) / 86400
validity_risk(row, now) ==
    IF IsNull(row.not_after) THEN 5
    ELSE IF row.not_after.val - now < 0 THEN 15
    ELSE IF row.not_after.val - now < 30 THEN 10
    ELSE IF row.not_after.val - now < 90 THEN 5
    ELSE 0

extension_risk(row) ==
    Min((IF row.crl_distribution_points THEN 0 ELSE 5)
        + (IF row.authority_key_identifier THEN 0 ELSE 5)
        + (IF row.subject_key_identifier THEN 0 ELSE 3)
        + (IF row.ocsp_responder_url THEN 0 ELSE 2), 15)

\* A share rounded to three decimals instead of one: round(score * weight, 3)
RoundedShareFine(score, weight) ==
    RoundHalfEven(score * weight, ScoreOne \div 1000) \div (ScoreOne \div Point)

\* round(float(score) * weight, 1), in thousandths of a point
RoundedShare(score, weight) ==
    RoundHalfEven(score * weight, ScoreOne \div 10) \div (ScoreOne \div Point)

temporal_risk(row) ==
    IF IsNull(row.not_before) \/ IsNull(row.not_after) THEN 0
    ELSE IF row.certificate_type = "DSC" /\ validity_days(row) > 365 * 15 THEN 8
    ELSE IF row.certificate_type = "CSCA" /\ validity_days(row) < 365 THEN 6
    ELSE IF validity_days(row) < 30 THEN 5
    ELSE IF validity_days(row) > 365 * 30 THEN 7
    ELSE 0

dn_risk(row) ==
    LET subject_dn == row.subject_dn
        present == subject_dn # NoDN
    IN Min((IF present /\ row.country_code # "" /\ subject_dn.country # ""
                /\ subject_dn.country # row.country_code THEN 5 ELSE 0)
           + (IF present /\ subject_dn.fields < 2 THEN 3 ELSE 0)
           + (IF present /\ subject_dn.fields > 10 THEN 2 ELSE 0), 10)

\* The ten category values of row, in thousandths of a point.
RiskCategories(row, now, anomaly, issuer, structural) ==
    [algorithm |-> ALGORITHM_RISK(row.signature_algorithm) * Point,
     key_size |-> key_size_risk(row) * Point,
     compliance |-> compliance_risk(row) * Point,
     validity |-> validity_risk(row, now) * Point,
     extensions |-> extension_risk(row) * Point,
     anomaly |-> RoundedShare(anomaly, 15),
     issuer_reputation |-> RoundedShare(issuer, 15),
     structural_consistency |-> RoundedShare(structural, 20),
     temporal_pattern |-> Min(temporal_risk(row) * Point, 10 * Point),
     dn_consistency |-> dn_risk(row) * Point]

OriginalCategories ==
    {"algorithm", "key_size", "compliance", "validity", "extensions", "anomaly"}

\* original_total = min(alg + ks + compliance + validity + ext + anomaly, 100.0)
original_total(cat) == Min(SumOver(cat, OriginalCategories), RiskMax)

\* forensic_scores[i] = min(raw_total / _MAX_RAW_SCORE * 100.0, 100.0)
forensic_total(cat) == Min((SumOver(cat, DOMAIN cat) * 100) \div 200, RiskMax)

\* factors: a category is listed when it is above 0 (the five whole-point
\* categories) or above 1 point (the others)
risk_factors(cat) ==
    {c \in DOMAIN cat :
        IF c \in OriginalCategories \ {"anomaly"} THEN cat[c] > 0 ELSE cat[c] > Point}

\* classify_risk
classify_risk(score) ==
    IF score >= 76 * Point THEN "CRITICAL"
    ELSE IF score >= 51 * Point THEN "HIGH"
    ELSE IF score >= 26 * Point THEN "MEDIUM"
    ELSE "LOW"

\* classify_forensic_risk
classify_forensic_risk(score) ==
    IF score >= 60 * Point THEN "CRITICAL"
    ELSE IF score >= 40 * Point THEN "HIGH"
    ELSE IF score >= 20 * Point THEN "MEDIUM"
    ELSE "LOW"

\* ------------------------------------- the stages of one run, per row
\* Steps 3 to 6 of _run_analysis for row i of frame, executed at time now
\* with the fitted models answering ml, on the feature matrix of step 2.
ScoreRow(frame, features, profiles, now, ml, i) ==
    LET detected == _fit_predict_by_type(frame, features, ml, i)
        structural == structural_score(frame[i])
        issuer == compute_issuer_anomaly_scores(frame, profiles, i)
        cat == RiskCategories(frame[i], now, detected.combined, issuer, structural)
    IN [fingerprint_sha256 |-> frame[i].fingerprint_sha256,
        certificate_type |-> frame[i].certificate_type,
        country_code |-> frame[i].country_code,
        features |-> features[i],
        combined |-> detected.combined,
        if_score |-> detected.if_score,
        lof_score |-> detected.lof_score,
        structural |-> structural,
        issuer |-> issuer,
        categories |-> cat,
        risk |-> original_total(cat),
        forensic |-> forensic_total(cat)]

\* The scored rows of a whole frame.
ScoreRows(frame, now, ml) ==
    LET features == FeatureMatrix(frame, now)
        profiles == build_issuer_profiles(frame)
    IN [i \in Indices(frame) |-> ScoreRow(frame, features, profiles, now, ml, i)]

\* ----------------------------------------- _save_results, column by column
\* The row that the statement for row i of run r leaves in the table on
\* insert: the values dict built from what the stages computed (scored),
\* and analyzed_at from the clock of the store.  The explanation and
\* finding texts are left out: anomaly_explanations records whether the
\* detector wrote any (score >= 0.3), forensic_findings its numbers.
ResultRow(r, scored, now, version) ==
    [id |-> <<r, scored.fingerprint_sha256>>,
     certificate_fingerprint |-> scored.fingerprint_sha256,
     certificate_type |-> scored.certificate_type,
     country_code |-> scored.country_code,
     anomaly_score |-> RoundHalfEven(scored.combined, ScoreOne \div 1000000),
     anomaly_label |-> classify_anomaly(scored.combined),
     isolation_forest_score |-> RoundHalfEven(scored.if_score, ScoreOne \div 1000000),
     lof_score |-> RoundHalfEven(scored.lof_score, ScoreOne \div 1000000),
     risk_score |-> RoundHalfEven(scored.risk, Point \div 100),
     risk_level |-> classify_risk(scored.risk),
     risk_factors |-> risk_factors(scored.categories),
     feature_vector |-> scored.features,
     anomaly_explanations |-> scored.combined >= (3 * ScoreOne) \div 10,
     forensic_risk_score |-> RoundHalfEven(scored.forensic, Point \div 100),
     forensic_risk_level |-> classify_forensic_risk(scored.forensic),
     forensic_findings |->
        [score |-> RoundHalfEven(scored.forensic, Point \div 10),
         level |-> classify_forensic_risk(scored.forensic),
         categories |-> scored.categories],
     structural_anomaly_score |-> RoundHalfEven(scored.structural, ScoreOne \div 10000),
     issuer_anomaly_score |-> RoundHalfEven(scored.issuer, ScoreOne \div 10000),
     temporal_anomaly_score |->
        RoundHalfEven(scored.categories.temporal_pattern * (ScoreOne \div (10 * Point)),
                      ScoreOne \div 10000),
     analysis_version |-> version,
     analyzed_at |-> now]

RECURSIVE UpsertValues(_, _, _)
\* for v in values: conn.execute(upsert, v), rows lo+1.. of values
UpsertValues(st, values, lo) ==
    IF lo >= Len(values) THEN st
    ELSE UpsertValues(Upsert(st, values[lo + 1]), values, lo + 1)

\* ------------------------------------------- one run at a time, scored
\* The populations, clocks and model answers the scored runs are taken
\* over.  A population of MinSamplesMLSC rows is of type MLSC and is fitted;
\* the smaller ones are of type DSC and take the rule-based scoring.
ScoringSizes == {1, 3, MinSamplesMLSC}

ScoringTimes == {20000, 20100}

ModelAnswers(n) ==
    IF n < MinSamplesMLSC THEN {ModelOutput(n, 0, 0)}
    ELSE {ModelOutput(n, 6999996, 6999996), ModelOutput(n, 664000, 664000),
          ModelOutput(n, ScoreOne, 0)}

\* Every run the scored specification can take, with what its stages
\* compute: the frame it loads, its clock and the scored rows.
ScoredRuns ==
    {LET frame == ScoringFrame(n, IF n < MinSamplesMLSC THEN "DSC" ELSE "MLSC", last)
         stats == issuer_stats(frame)
     IN [frame |-> frame,
         now |-> now,
         scored |-> ScoreRows(frame, now, ml),
         profiles |-> build_issuer_profiles(frame),
         issuer_anomaly_rate |->
            [i \in Indices(frame) |-> issuer_anomaly_rate(frame, stats, i)]] :
        <<n, last, now, ml>> \in
            UNION {{<<m, k, t, a>> : k \in CertificateKinds, t \in ScoringTimes,
                                     a \in ModelAnswers(m)} : m \in ScoringSizes}}

\* _run_analysis from the thread's start to its return, the run being alone
\* and no stage raising: the job state as the last critical section leaves
\* it, the table as the last commit leaves it.  df[r] keeps what the run
\* loaded, its clock, the issuer statistics of its two stages and the
\* values it wrote.
ScoreAndSave(r) ==
    /\ IdleRuns # {}
    /\ r = NextRun
    /\ \E run \in ScoredRuns :
        LET values == [i \in DOMAIN run.scored |->
                            ResultRow(r, run.scored[i], run.now, model_version)]
        IN /\ store' = UpsertValues(store, values, 0)
           /\ df' = [df EXCEPT ![r] = [frame |-> run.frame, now |-> run.now,
                                       profiles |-> run.profiles,
                                       issuer_anomaly_rate |-> run.issuer_anomaly_rate,
                                       values |-> values]]
           /\ _job_status' = [status |-> "COMPLETED", progress |-> ProgressOne,
                              total_certificates |-> Len(values),
                              processed_certificates |-> Len(values),
                              started_at |-> r, completed_at |-> r,
                              error_message |-> NoError]
    /\ pc' = [pc EXCEPT ![r] = "completed"]
    /\ UNCHANGED <<start, exc, origin, response>>

ScoringNext == \E r \in Runs : ScoreAndSave(r)

ScoringSpec == Init /\ [][ScoringNext]_vars

\* ------------------------------------------------- GET /anomalies filter
\* Query strings are sequences of characters.
_CERT_TYPE_ALTERNATIVES ==
    {<<"C", "S", "C", "A">>, <<"D", "S", "C">>, <<"D", "S", "C", "_", "N", "C">>,
     <<"M", "L", "S", "C">>, <<"L", "C">>}

\* The characters of a stored certificate_type.
TypeName(ct) ==
    IF ct = "CSCA" THEN <<"C", "S", "C", "A">>
    ELSE IF ct = "DSC" THEN <<"D", "S", "C">>
    ELSE IF ct = "DSC_NC" THEN <<"D", "S", "C", "_", "N", "C">>
    ELSE IF ct = "MLSC" THEN <<"M", "L", "S", "C">>
    ELSE << >>

\* _CERT_TYPE_RE.match(s) for ^(CSCA|DSC|DSC_NC|MLSC|LC)$: one of the
\* alternatives from the start of s, then the end of s, where $ also
\* matches just before a newline that ends s.
_CERT_TYPE_RE(s) ==
    \/ s \in _CERT_TYPE_ALTERNATIVES
    \/ /\ Len(s) > 0
       /\ s[Len(s)] = "\n"
       /\ SubSeq(s, 1, Len(s) - 1) \in _CERT_TYPE_ALTERNATIVES

MaxTypeLen == 3

TypeAlphabet == {"D", "S", "C", "L", "_", "\n"}

\* The type parameters sent: every string over TypeAlphabet up to
\* MaxTypeLen characters, the certificate types, and each of them followed
\* by a newline, by another character, or in lower case.
CandidateTypes ==
    UNION {[1..n -> TypeAlphabet] : n \in 0..MaxTypeLen}
    \cup _CERT_TYPE_ALTERNATIVES
    \cup {s \o <<c>> : s \in _CERT_TYPE_ALTERNATIVES, c \in {"\n", "x", " "}}
    \cup {<<"d", "s", "c">>, <<"c", "s", "c", "a">>, <<"N", "C">>,
          <<"x", "D", "S", "C">>}

\* list_anomalies with the type parameter only: 400 when the parameter is
\* given and does not match, else the rows of that type (all rows when the
\* parameter is absent or empty).  response keeps the request with its answer.
list_anomalies ==
    /\ \E cert_type \in CandidateTypes :
        response' =
            IF cert_type # << >> /\ ~_CERT_TYPE_RE(cert_type)
            THEN [cert_type |-> cert_type, status_code |-> 400, items |-> {}]
            ELSE [cert_type |-> cert_type, status_code |-> 200,
                  items |-> IF cert_type = << >> THEN store
                            ELSE {row \in store :
                                    TypeName(row.certificate_type) = cert_type}]
    /\ UNCHANGED <<_job_status, store, pc, df, start, exc, origin>>

FilterSpec == Init /\ [][list_anomalies]_vars

\* --------------------------------- check_extension_compliance, row by row
\* What check_extension_compliance returns for row (violations_detail, the
\* texts of the same violations, left out).
check_extension_compliance(row) ==
    LET ct == row.certificate_type
        profile == IF ct \in DOMAIN EXPECTED_EXTENSIONS
                   THEN EXPECTED_EXTENSIONS[ct] ELSE EXPECTED_EXTENSIONS["DSC_NC"]
    IN [missing_required |-> {f \in profile.required : ~HasField(row, f)},
        missing_recommended |-> {f \in profile.recommended : ~HasField(row, f)},
        forbidden_violations |->
            {"is_ca" : v \in {w \in profile.forbidden_is_ca : row.is_ca = w}},
        key_usage_violations |-> profile.required_key_usage_bits \ row.key_usage,
        structural_score |-> structural_score(row)]

\* The rows the engine is called with: every certificate type of the loader
\* and an unknown one, every set of key usage names, every combination of
\* the extension columns and of is_ca.
ExtensionRows ==
    [certificate_type : {"CSCA", "DSC", "DSC_NC", "MLSC", ""},
     key_usage : SUBSET {"digitalSignature", "keyCertSign", "cRLSign"},
     extended_key_usage : BOOLEAN, subject_key_identifier : BOOLEAN,
     authority_key_identifier : BOOLEAN, crl_distribution_points : BOOLEAN,
     ocsp_responder_url : BOOLEAN, is_ca : BOOLEAN]

\* One call of check_extension_compliance: df keeps the row and the answer.
ExtensionCheck ==
    /\ IdleRuns = Runs
    /\ \E row \in ExtensionRows :
        df' = [df EXCEPT ![NextRun] =
                    [row |-> row, compliance |-> check_extension_compliance(row)]]
    /\ pc' = [pc EXCEPT ![NextRun] = "checked"]
    /\ UNCHANGED <<_job_status, store, start, exc, origin, response>>

ExtensionSpec == Init /\ [][ExtensionCheck]_vars

\* ------------------------------------------- compute_risk_scores, row by row
\* findings: the {category, severity} pairs appended for a row with the
\* category values cat (messages left out).
findings(row, cat) ==
    {[category |-> "algorithm", severity |-> "CRITICAL"] :
        x \in {c \in {"algorithm"} : cat[c] > 0 /\ cat[c] >= 30 * Point}}
    \cup {[category |-> "key_size", severity |-> "CRITICAL"] :
        x \in {c \in {"key_size"} : cat[c] > 0 /\ cat[c] >= 30 * Point}}
    \cup {[category |-> "compliance", severity |-> "HIGH"] :
        x \in {c \in {"compliance"} : cat[c] > 0 /\ cat[c] >= 15 * Point}}
    \cup {[category |-> "validity", severity |-> "HIGH"] :
        x \in {c \in {"validity"} : cat[c] > 0 /\ cat[c] >= 15 * Point}}
    \cup {[category |-> "anomaly", severity |-> "HIGH"] :
        x \in {c \in {"anomaly"} : cat[c] > Point /\ cat[c] >= 10 * Point}}
    \cup {[category |-> "issuer_reputation", severity |-> "MEDIUM"] :
        x \in {c \in {"issuer_reputation"} : cat[c] > Point /\ cat[c] >= 10 * Point}}
    \cup {[category |-> "structural_consistency", severity |-> "HIGH"] :
        x \in {c \in {"structural_consistency"} :
                    cat[c] > Point /\ cat[c] >= 15 * Point}}
    \cup {[category |-> "temporal_pattern", severity |-> "MEDIUM"] :
        x \in {c \in {"temporal_pattern"} : cat[c] > Point /\ cat[c] >= 6 * Point}}
    \cup {[category |-> "dn_consistency", severity |-> "MEDIUM"] :
        x \in {c \in {"dn_consistency"} :
                    /\ row.subject_dn # NoDN /\ row.country_code # ""
                    /\ row.subject_dn.country # ""
                    /\ row.subject_dn.country # row.country_code}}

\* The clock of the row-by-row calls.
RiskNow == 20000

\* Scores just under and on the bars of the weighted categories:
\* round(0.6633333 * 15, 1) = 9.9, round(0.6666667 * 15, 1) = 10.0,
\* round(0.66 * 15, 1) = 9.9, round(0.67 * 15, 1) = 10.0 (10.05 to even),
\* round(0.7 * 20, 1) = 14.0, round(0.75 * 20, 1) = 15.0.
RiskAnomalyScores == {0, 6633333, 6666667}

RiskIssuerScores == {6600000, 6700000}

RiskStructuralScores == {7000000, 7500000}

\* The rows the scorer is called with: values on both sides of every bar.
RiskRows ==
    {[certificate_type |-> ct, signature_algorithm |-> sig,
      public_key_algorithm |-> key[1], public_key_size |-> key[2],
      icao_compliant |-> icao, not_before |-> nb, not_after |-> na,
      crl_distribution_points |-> ext, authority_key_identifier |-> ext,
      subject_key_identifier |-> ext, ocsp_responder_url |-> ext,
      subject_dn |-> dn, country_code |-> "KR"] :
        ct \in {"DSC", "CSCA"},
        sig \in {"sha1WithRSAEncryption", "sha256WithRSAEncryption", "md5WithRSAEncryption"},
        key \in {<<"RSA", IntVal(1024)>>, <<"RSA", IntVal(2048)>>,
                 <<"ECDSA", IntVal(224)>>, <<"", NullVal>>},
        icao \in {"false", "null", "true"},
        nb \in {IntVal(8000), IntVal(19000), IntVal(RiskNow - 5)},
        na \in {IntVal(RiskNow - 10), IntVal(RiskNow + 10), IntVal(RiskNow + 60),
                IntVal(RiskNow + 1000)},
        ext \in BOOLEAN,
        dn \in {DN("KR", 3), DN("FR", 3), NoDN}}

\* One call of compute_risk_scores on a frame of one row, with the level
\* _save_results derives: df keeps the row, the scores passed in and the answer.
RiskCheck ==
    /\ IdleRuns = Runs
    /\ \E row \in RiskRows, anomaly \in RiskAnomalyScores,
          issuer \in RiskIssuerScores, structural \in RiskStructuralScores :
        LET cat == RiskCategories(row, RiskNow, anomaly, issuer, structural)
        IN df' = [df EXCEPT ![NextRun] =
                    [row |-> row, now |-> RiskNow, anomaly |-> anomaly,
                     categories |-> cat,
                     risk_score |-> original_total(cat),
                     risk_level |-> classify_risk(original_total(cat)),
                     risk_factors |-> risk_factors(cat),
                     findings |-> findings(row, cat)]]
    /\ pc' = [pc EXCEPT ![NextRun] = "scored"]
    /\ UNCHANGED <<_job_status, store, start, exc, origin, response>>

RiskSpec == Init /\ [][RiskCheck]_vars

\* ------------------------------------ the stages as arrays, by position
RECURSIVE drop_duplicates(_)
\* df.drop_duplicates(subset=["fingerprint_sha256"], keep="first")
drop_duplicates(rows) ==
    IF rows = << >> THEN << >>
    ELSE LET front == drop_duplicates(SubSeq(rows, 1, Len(rows) - 1))
             last == rows[Len(rows)]
         IN IF \E k \in 1..Len(front) :
                    front[k].fingerprint_sha256 = last.fingerprint_sha256
            THEN front
            ELSE Append(front, last)

RECURSIVE TypePositions(_, _, _)
\* np.where(cert_types == ct)[0] over the first n positions, increasing
TypePositions(cert_types, ct, n) ==
    IF n = 0 THEN << >>
    ELSE IF cert_types[n] = ct
         THEN Append(TypePositions(cert_types, ct, n - 1), n)
         ELSE TypePositions(cert_types, ct, n - 1)

\* type_features = features[indices]
Gather(features, indices) == [j \in 1..Len(indices) |-> features[indices[j]]]

\* A write of the subset's scores to the first positions of the arrays:
\* combined[:type_n] = type_combined, the rest left at zero.
ScatterCompact(indices, type_values, i) ==
    IF i <= Len(type_values) THEN type_values[i]
    ELSE [combined |-> 0, if_score |-> 0, lof_score |-> 0]

\* combined[indices] = type_combined, and so if_scores and lof_scores: what
\* position i of the three arrays holds afterwards
Scatter(indices, type_values, i) ==
    type_values[CHOOSE j \in 1..Len(indices) : indices[j] = i]

\* detector.fit_predict(features, cert_types): the three score arrays, by
\* position.  ml is what the fitted models return for the row of a position.
fit_predict(features, cert_types, ml) ==
    [i \in 1..Len(cert_types) |->
        LET ct == cert_types[i]
            indices == TypePositions(cert_types, ct, Len(cert_types))
            type_n == Len(indices)
            type_features == SubSeq(Gather(features, indices), 1, type_n)
            type_values ==
                [j \in 1..type_n |->
                    IF type_n < min_samples(ct)
                    THEN LET type_combined ==
                                _rule_based_scoring(type_features, 1..type_n, j)
                         IN [combined |-> type_combined, if_score |-> type_combined,
                             lof_score |-> type_combined]
                    ELSE LET type_if ==
                                _normalize_scores(
                                    [k \in 1..type_n |-> 0 - ml.if_raw[indices[k]]],
                                    1..type_n, j)
                             type_lof ==
                                _normalize_scores(
                                    [k \in 1..type_n |-> 0 - ml.lof_raw[indices[k]] - 1],
                                    1..type_n, j)
                         IN [combined |-> (6 * type_if + 4 * type_lof) \div 10,
                             if_score |-> type_if, lof_score |-> type_lof]]
        IN Scatter(indices, type_values, i)]

\* Steps 1 to 6 of _run_analysis on the query result raw at time now, every
\* stage filling its array by position; what _save_results is called with,
\* put together by position as its loop does.  SubSeq(a, 1, n) is the array
\* a held as computed, every position filled once.
RunStages(raw, now, ml) ==
    LET frame == drop_duplicates(raw)
        n == Len(frame)
        metadata == [i \in 1..n |->
                        [fingerprint_sha256 |-> frame[i].fingerprint_sha256,
                         certificate_type |-> frame[i].certificate_type,
                         country_code |-> frame[i].country_code]]
        features == SubSeq(FeatureMatrix(frame, now), 1, n)
        detected == SubSeq(fit_predict(features,
                                       [i \in 1..n |-> metadata[i].certificate_type],
                                       ml), 1, n)
        structural_scores == [i \in 1..n |-> structural_score(frame[i])]
        profiles == build_issuer_profiles(frame)
        issuer_scores == SubSeq([i \in 1..n |->
                                    compute_issuer_anomaly_scores(frame, profiles, i)],
                                1, n)
        categories == SubSeq([i \in 1..n |->
                                RiskCategories(frame[i], now, detected[i].combined,
                                               issuer_scores[i], structural_scores[i])],
                             1, n)
    IN [i \in 1..n |->
            [fingerprint_sha256 |-> metadata[i].fingerprint_sha256,
             certificate_type |-> metadata[i].certificate_type,
             country_code |-> metadata[i].country_code,
             features |-> features[i],
             combined |-> detected[i].combined,
             if_score |-> detected[i].if_score,
             lof_score |-> detected[i].lof_score,
             structural |-> structural_scores[i],
             issuer |-> issuer_scores[i],
             categories |-> categories[i],
             risk |-> original_total(categories[i]),
             forensic |-> forensic_total(categories[i])]]

\* The certificate with fingerprint fp of type ct, joined with a validation
\* result that says icao.
JoinedRow(fp, ct, icao) ==
    [fingerprint_sha256 |-> fp, certificate_type |-> ct]
        @@ [(IF fp = 1 THEN SoundCertificate
             ELSE IF fp = 2 THEN WeakCertificate
             ELSE IF fp = 3 THEN BrokenCertificate
             ELSE BlankCertificate) EXCEPT !.icao_compliant = icao]

\* The orders in which the query returns the fingerprints; a certificate
\* with two validation results comes twice.
QueryOrders == {<<2, 4, 1, 3>>, <<4, 2, 4, 1, 3>>, <<3, 1, 1, 4, 2>>}

\* The fingerprints that are of type MLSC, the others being DSC.
TypeSplits == {{}, {1}, {4}, {1, 3}, {2, 4}, {1, 2, 3}}

\* What the query returns: the second row of a certificate carries the
\* other validation result.
QueryResult(order, split) ==
    [k \in 1..Len(order) |->
        JoinedRow(order[k],
                  IF order[k] \in split THEN "MLSC" ELSE "DSC",
                  IF \E q \in 1..(k - 1) : order[q] = order[k] THEN "false" ELSE "true")]

\* Every run of the aligned specification with what its stages compute.
AlignedRuns ==
    {LET raw == QueryResult(order, split)
     IN [raw |-> raw,
         frame |-> drop_duplicates(raw),
         now |-> RiskNow,
         scored |-> RunStages(raw, RiskNow,
                              ModelOutput(Len(drop_duplicates(raw)), 0, 0))] :
        order \in QueryOrders, split \in TypeSplits}

\* _run_analysis from the thread's start to its return, the run being alone
\* and no stage raising, over a query result with mixed types and repeated
\* certificates.  df[r] keeps the query result, the frame, the clock and the
\* values written.
LoadScoreAndSave(r) ==
    /\ IdleRuns # {}
    /\ r = NextRun
    /\ \E run \in AlignedRuns :
        LET values == [i \in DOMAIN run.scored |->
                            ResultRow(r, run.scored[i], run.now, model_version)]
        IN /\ store' = UpsertValues(store, values, 0)
           /\ df' = [df EXCEPT ![r] = [raw |-> run.raw, frame |-> run.frame,
                                       now |-> run.now, values |-> values]]
           /\ _job_status' = [status |-> "COMPLETED", progress |-> ProgressOne,
                              total_certificates |-> Len(values),
                              processed_certificates |-> Len(values),
                              started_at |-> r, completed_at |-> r,
                              error_message |-> NoError]
    /\ pc' = [pc EXCEPT ![r] = "completed"]
    /\ UNCHANGED <<start, exc, origin, response>>

AlignedNext == \E r \in Runs : LoadScoreAndSave(r)

AlignedSpec == Init /\ [][AlignedNext]_vars

\* ================================================================ claims
Executing(r) == pc[r] \notin {"idle", "start", "completed", "failed"}

Terminated(r) == pc[r] \in {"completed", "failed"}

RowsOf(st, fp) == {row \in st : row.certificate_fingerprint = fp}

\* C1: of the start requests made while no run is RUNNING exactly one is
\* accepted: never are the runs of two accepted start requests in flight
\* together.
C1_SingleFlightStart ==
    \A r1, r2 \in Runs :
        (origin[r1] = "request" /\ origin[r2] = "request"
            /\ InFlight(r1) /\ InFlight(r2)) => r1 = r2

\* C2: in every reachable state at most one pipeline run is executing (has
\* set RUNNING and has not reached COMPLETED or FAILED), whichever entry
\* point started it.
C2_AtMostOneRunning == Cardinality({r \in Runs : Executing(r)}) <= 1

\* C3: no batch of an earlier run is committed after a later run has been
\* accepted (runs are numbered in the order they are accepted).
C3_CommitBeforeNextRun ==
    [][\A r \in Runs :
        (pc[r] = "save" /\ pc'[r] = "saved")
            => ~(\E q \in Runs : q > r /\ pc[q] # "idle")]_vars

\* C4: when a run reaches COMPLETED, the store holds exactly one row for
\* each fingerprint the run loaded, and that row carries the run's
\* model_version.
C4_CompletedRunStoredAll ==
    [][\A r \in Runs :
        (pc[r] \in {"finish", "empty"} /\ pc'[r] = "completed")
            => \A i \in Indices(df[r]) :
                /\ Cardinality(RowsOf(store', df[r][i].fingerprint_sha256)) = 1
                /\ \A row \in RowsOf(store', df[r][i].fingerprint_sha256) :
                        row.analysis_version = model_version]_vars

\* C4 witness: a run has completed over a full population and the store
\* holds its rows.
C4_Witness ==
    /\ \E r \in Runs : pc[r] = "completed"
    /\ _job_status.status = "COMPLETED"
    /\ _job_status.processed_certificates = MaxCerts
    /\ Cardinality(store) = MaxCerts

AllowedTransitions ==
    {<<"IDLE", "RUNNING">>, <<"COMPLETED", "RUNNING">>, <<"FAILED", "RUNNING">>,
     <<"RUNNING", "COMPLETED">>, <<"RUNNING", "FAILED">>}

\* C5: the job status changes only along IDLE->RUNNING, COMPLETED->RUNNING,
\* FAILED->RUNNING, RUNNING->COMPLETED and RUNNING->FAILED.
C5_StatusTransitions ==
    [][_job_status'.status # _job_status.status
        => <<_job_status.status, _job_status'.status>> \in AllowedTransitions]_vars

\* C6: while a run is executing (after it set RUNNING, before it reaches
\* COMPLETED or FAILED) the progress of the job state never decreases.
C6_ProgressMonotonic ==
    [][(\E r \in Runs : Executing(r))
        => _job_status'.progress >= _job_status.progress]_vars

\* C7: every run that has set RUNNING eventually sets COMPLETED or FAILED.
C7_RunTerminates ==
    \A r \in Runs : Executing(r) ~> Terminated(r)

\* C7 witness: one run has ended COMPLETED and another has ended FAILED.
C7_Witness ==
    \E r, q \in Runs : pc[r] = "completed" /\ pc[q] = "failed"

\* C8: when a batch fails in the write stage, the run ends FAILED, the rows
\* of the batches it committed before are in the store with that run's
\* values, and no row of the failing or a later batch is written by the run.
C8_WriteFailureKeepsCommitted ==
    [][\A r \in Runs :
        (pc[r] = "except" /\ exc[r] = "WriteError" /\ pc'[r] = "failed")
            => /\ _job_status'.status = "FAILED"
               /\ \A i \in 1..start[r] :
                    \E row \in RowsOf(store', df[r][i].fingerprint_sha256) :
                        row.scores = r
               /\ \A i \in (start[r] + 1)..Len(df[r]) :
                    \A row \in RowsOf(store', df[r][i].fingerprint_sha256) :
                        row.scores # r]_vars

\* C9: a model fit error on a type subset never makes the run end FAILED.
C9_FitErrorNotFatal ==
    [][\A r \in Runs : exc[r] = "ModelError" => pc'[r] # "failed"]_vars

\* C10: a malformed input value never makes the run end FAILED.
C10_MalformedInputNotFatal ==
    [][\A r \in Runs : exc[r] = "FeatureError" => pc'[r] # "failed"]_vars

\* C11: when loading the certificate population fails, the run ends with
\* status FAILED and the generic error message, and the store holds no row
\* written by that run.
C11_LoadFailureEndsFailed ==
    [][\A r \in Runs :
        (pc[r] = "except" /\ exc[r] = "DataSourceError" /\ pc'[r] = "failed")
            => /\ _job_status'.status = "FAILED"
               /\ _job_status'.error_message = GenericError
               /\ store' = store
               /\ \A row \in store' : row.scores # r /\ row.id[1] # r]_vars

\* C11 witness: the first run failed while loading (no total was ever
\* recorded, nothing else has started) and the store is empty.
C11_Witness ==
    /\ pc[1] = "failed" /\ \A r \in Runs \ {1} : pc[r] = "idle"
    /\ _job_status.status = "FAILED"
    /\ _job_status.error_message = GenericError
    /\ _job_status.total_certificates = 0
    /\ store = {}

\* C12: a run that loaded an empty population goes from RUNNING to COMPLETED
\* with total_certificates = 0 and progress 1.0, runs no later stage and
\* writes nothing to the store.
C12_EmptyPopulationCompletes ==
    [][\A r \in Runs :
        pc[r] = "empty"
            => /\ pc'[r] \in {"empty", "completed"}
               /\ store' = store
               /\ pc'[r] = "completed"
                    => /\ _job_status.status = "RUNNING"
                       /\ _job_status'.status = "COMPLETED"
                       /\ _job_status'.total_certificates = 0
                       /\ _job_status'.progress = ProgressOne]_vars

\* C13: a start attempt answered with conflict is made while the status is
\* RUNNING, leaves every field of the job state unchanged, starts no thread
\* and leaves every run and the store as they were.
C13_ConflictChangesNothing ==
    [][(response' = "conflict" /\ response # "conflict")
        => /\ _job_status.status = "RUNNING"
           /\ UNCHANGED <<_job_status, store, pc, df, start, exc, origin>>]_vars

\* C13 witness: a start attempt was rejected while a run is executing.
C13_Witness ==
    /\ response = "conflict"
    /\ _job_status.status = "RUNNING"
    /\ \E r \in Runs : Executing(r)

StoredFingerprints(st) == {row.certificate_fingerprint : row \in st}

FrameFingerprints(frame) == {frame[i].fingerprint_sha256 : i \in Indices(frame)}

\* C14: the store never holds two rows with one fingerprint, and a batch of
\* a run whose fingerprints are all stored already leaves the set of stored
\* fingerprints unchanged.
C14_OneRowPerFingerprint ==
    [][/\ \A a, b \in store' :
            a.certificate_fingerprint = b.certificate_fingerprint => a = b
       /\ \A r \in Runs :
            (pc[r] = "save" /\ pc'[r] = "saved"
                /\ FrameFingerprints(df[r]) \subseteq StoredFingerprints(store))
             => StoredFingerprints(store') = StoredFingerprints(store)]_vars

\* C14 witness: every row of a full population was inserted by the first
\* run and overwritten by the second.
C14_Witness ==
    /\ Cardinality(store) = MaxCerts
    /\ \A row \in store : row.id[1] = 1 /\ row.scores = 2

\* C15: when a run writes a row whose fingerprint is stored already, the
\* stored id, certificate_type and country_code stay, and every other
\* column (scores, levels, factors, explanations, features,
\* analysis_version, analyzed_at) takes the value the run wrote.
C15_UpsertKeepsIdentity ==
    [][\A r \in Runs :
        (pc[r] = "idle" /\ pc'[r] = "completed")
            => \A i \in DOMAIN df'[r].values :
                LET v == df'[r].values[i]
                IN \A old \in RowsOf(store, v.certificate_fingerprint) :
                    \E new \in RowsOf(store', v.certificate_fingerprint) :
                        \A c \in DOMAIN new :
                            new[c] = IF c \in {"id", "certificate_type", "country_code"}
                                     THEN old[c] ELSE v[c]]_vars

\* C15 witness: a row inserted by the first run has been overwritten by the
\* second, which carried another id, type and country for it: the row keeps
\* the first run's three and has the second run's scores and analyzed_at.
C15_Witness ==
    /\ pc[2] = "completed"
    /\ \E row \in store : \E i \in DOMAIN df[2].values :
        LET v == df[2].values[i]
        IN /\ row.certificate_fingerprint = v.certificate_fingerprint
           /\ row.id[1] = 1 /\ v.id[1] = 2
           /\ row.certificate_type # v.certificate_type
           /\ row.country_code # v.country_code
           /\ row.risk_score = v.risk_score
           /\ row.feature_vector = v.feature_vector
           /\ row.analyzed_at = v.analyzed_at
           /\ row.analyzed_at # df[1].now

\* C16: every stored row's anomaly_label is the classification of its
\* stored anomaly_score: ANOMALOUS from 0.7, SUSPICIOUS from 0.3, else NORMAL.
C16_LabelMatchesStoredScore ==
    \A row \in store : row.anomaly_label = classify_anomaly(row.anomaly_score)

\* C17: every stored row's risk_level is the classification of its stored
\* risk_score under 76/51/26, and its forensic_risk_level that of its
\* stored forensic_risk_score under 60/40/20.
C17_LevelsMatchStoredScores ==
    \A row \in store :
        /\ row.risk_level = classify_risk(row.risk_score)
        /\ row.forensic_risk_level = classify_forensic_risk(row.forensic_risk_score)

\* C17 witness: rows are stored whose risk score sits on the CRITICAL
\* threshold and whose forensic score lies within a point of a threshold.
C17_Witness ==
    /\ \E row \in store : row.risk_score = 76 * Point /\ row.risk_level = "CRITICAL"
    /\ \E row \in store :
        /\ row.forensic_risk_score < 40 * Point
        /\ row.forensic_risk_score > 39 * Point
        /\ row.forensic_risk_level = "MEDIUM"

InUnitRange(score) == 0 <= score /\ score <= ScoreOne

\* C18: in every row a run produces the six normalised scores lie in
\* [0, 1] and the two risk scores in [0, 100].
C18_ScoresInRange ==
    \A r \in Runs : pc[r] = "completed" =>
        \A i \in DOMAIN df[r].values :
            LET row == df[r].values[i]
            IN /\ InUnitRange(row.anomaly_score)
               /\ InUnitRange(row.isolation_forest_score)
               /\ InUnitRange(row.lof_score)
               /\ InUnitRange(row.structural_anomaly_score)
               /\ InUnitRange(row.issuer_anomaly_score)
               /\ InUnitRange(row.temporal_anomaly_score)
               /\ 0 <= row.risk_score /\ row.risk_score <= RiskMax
               /\ 0 <= row.forensic_risk_score /\ row.forensic_risk_score <= RiskMax

\* C18 witness: a run produced a row at the upper ends (anomaly 1.0,
\* structural 1.0, risk 100) and a row at the lower ends.
C18_Witness ==
    \E r \in Runs :
        /\ pc[r] = "completed"
        /\ \E i \in DOMAIN df[r].values :
            /\ df[r].values[i].anomaly_score = ScoreOne
            /\ df[r].values[i].structural_anomaly_score = ScoreOne
            /\ df[r].values[i].risk_score = RiskMax
        /\ \E i \in DOMAIN df[r].values :
            /\ df[r].values[i].anomaly_score = 0
            /\ df[r].values[i].risk_score = 0

\* C19: two runs over the same input rows write the same feature_vector
\* for every fingerprint, whenever each of them executes.
C19_FeaturesIndependentOfTime ==
    \A r1, r2 \in Runs :
        (pc[r1] = "completed" /\ pc[r2] = "completed" /\ df[r1].frame = df[r2].frame)
            => \A i \in DOMAIN df[r1].values :
                df[r1].values[i].feature_vector = df[r2].values[i].feature_vector

\* C20: a type parameter is accepted exactly when it is one of CSCA, DSC,
\* DSC_NC and MLSC; every other (non-empty) string is answered 400.
C20_FilterAcceptsFourTypes ==
    [][response'.cert_type # << >>
        => (response'.status_code = 200
                <=> response'.cert_type \in
                        {<<"C", "S", "C", "A">>, <<"D", "S", "C">>,
                         <<"D", "S", "C", "_", "N", "C">>, <<"M", "L", "S", "C">>})]_vars

\* The row of C21: a DSC with digitalSignature in key_usage, is_ca false,
\* and none of CRL DP, AKI, SKI and OCSP.
C21_Row(row) ==
    /\ row.certificate_type = "DSC"
    /\ "digitalSignature" \in row.key_usage
    /\ ~row.is_ca
    /\ ~row.crl_distribution_points /\ ~row.authority_key_identifier
    /\ ~row.subject_key_identifier /\ ~row.ocsp_responder_url

\* C21 as stated: for such a row check_extension_compliance returns
\* structural_score 0.10 with exactly two missing recommended extensions
\* and no missing required extension, forbidden or key-usage violation.
C21_ScoreIsTenth ==
    \A r \in Runs : (pc[r] = "checked" /\ C21_Row(df[r].row)) =>
        /\ df[r].compliance.structural_score = ScoreOne \div 10
        /\ Cardinality(df[r].compliance.missing_recommended) = 2
        /\ df[r].compliance.missing_required = {}
        /\ df[r].compliance.forbidden_violations = {}
        /\ df[r].compliance.key_usage_violations = {}

\* C21 amended: for such a row check_extension_compliance returns
\* structural_score 0.35 = 0.25 * 1 + 0.05 * 2: authority_key_identifier is
\* the one missing required extension, crl_distribution_points and
\* ocsp_responder_url the two missing recommended ones, and there is no
\* forbidden or key-usage violation.
C21_ScoreCountsMissingAKI ==
    \A r \in Runs : (pc[r] = "checked" /\ C21_Row(df[r].row)) =>
        /\ df[r].compliance.structural_score = (35 * ScoreOne) \div 100
        /\ df[r].compliance.missing_recommended =
                {"crl_distribution_points", "ocsp_responder_url"}
        /\ df[r].compliance.missing_required = {"authority_key_identifier"}
        /\ df[r].compliance.forbidden_violations = {}
        /\ df[r].compliance.key_usage_violations = {}

\* C21 witness: the engine has answered for the row of the claim.
C21_Witness ==
    \E r \in Runs :
        /\ pc[r] = "checked"
        /\ C21_Row(df[r].row)
        /\ df[r].row.key_usage = {"digitalSignature"}
        /\ df[r].compliance.structural_score = (35 * ScoreOne) \div 100

\* The row of C22: a DSC signed sha1WithRSAEncryption with an RSA key of
\* 1024 bits, icao_compliant false, not_after 10 days ahead, and none of
\* CRL DP, AKI, SKI and OCSP.
C22_Row(row, now) ==
    /\ row.certificate_type = "DSC"
    /\ row.signature_algorithm = "sha1WithRSAEncryption"
    /\ row.public_key_algorithm = "RSA"
    /\ row.public_key_size = IntVal(1024)
    /\ row.icao_compliant = "false"
    /\ row.not_after = IntVal(now + 10)
    /\ ~row.crl_distribution_points /\ ~row.authority_key_identifier
    /\ ~row.subject_key_identifier /\ ~row.ocsp_responder_url

FindingCategories(fs) == {f.category : f \in fs}

\* C22 as stated: for such a row and any anomaly score the risk score is
\* 100, the level CRITICAL, and the findings include algorithm, key_size,
\* compliance and validity.
C22_WeakDscFindsValidity ==
    \A r \in Runs : (pc[r] = "scored" /\ C22_Row(df[r].row, df[r].now)) =>
        /\ df[r].risk_score = RiskMax
        /\ df[r].risk_level = "CRITICAL"
        /\ {"algorithm", "key_size", "compliance", "validity"}
                \subseteq FindingCategories(df[r].findings)

\* C22 amended: for such a row and any anomaly score the risk score is 100,
\* the level CRITICAL, and the findings include one finding for each of
\* algorithm, key_size and compliance and none for validity, whose 10
\* points stay under the bar of 15.
C22_WeakDscIsCritical ==
    \A r \in Runs : (pc[r] = "scored" /\ C22_Row(df[r].row, df[r].now)) =>
        /\ df[r].risk_score = RiskMax
        /\ df[r].risk_level = "CRITICAL"
        /\ df[r].categories.validity = 10 * Point
        /\ \A c \in {"algorithm", "key_size", "compliance"} :
                Cardinality({f \in df[r].findings : f.category = c}) = 1
        /\ "validity" \notin FindingCategories(df[r].findings)

\* C22 witness: the scorer has answered for the row of the claim with
\* anomaly score 0, the six categories adding up to 125 points.
C22_Witness ==
    \E r \in Runs :
        /\ pc[r] = "scored"
        /\ C22_Row(df[r].row, df[r].now)
        /\ df[r].anomaly = 0
        /\ SumOver(df[r].categories, OriginalCategories) = 125 * Point
        /\ df[r].risk_score = RiskMax

\* The findings C23 prescribes for the category values cat of row.
C23_Prescribed(row, cat) ==
    {[category |-> c, severity |-> "CRITICAL"] :
        c \in {k \in {"algorithm", "key_size"} : cat[k] >= 30 * Point}
              \cup {k \in {"compliance", "validity"} : cat[k] >= 15 * Point}}
    \cup {[category |-> c, severity |-> "HIGH"] :
        c \in {k \in {"anomaly"} : cat[k] >= 10 * Point}
              \cup {k \in {"structural_consistency"} : cat[k] >= 15 * Point}}
    \cup {[category |-> c, severity |-> "MEDIUM"] :
        c \in {k \in {"issuer_reputation"} : cat[k] >= 10 * Point}
              \cup {k \in {"temporal_pattern"} : cat[k] >= 6 * Point}
              \cup {k \in {"dn_consistency"} :
                        /\ row.subject_dn # NoDN /\ row.subject_dn.country # ""
                        /\ row.country_code # ""
                        /\ row.subject_dn.country # row.country_code}}

\* C23: the scorer emits a finding for a category exactly when its points
\* cross its bar, with the prescribed severity: CRITICAL for algorithm >= 30,
\* key_size >= 30, compliance >= 15, validity >= 15; HIGH for anomaly >= 10,
\* structural_consistency >= 15; MEDIUM for issuer_reputation >= 10,
\* temporal_pattern >= 6 and a subject-DN country mismatch.
C23_FindingsFollowBars ==
    \A r \in Runs : pc[r] = "scored" =>
        df[r].findings = C23_Prescribed(df[r].row, df[r].categories)

\* C24: every row whose issuer DN is missing or empty gets issuer anomaly
\* score 0.30, whatever the population, also when no row of the population
\* has a usable issuer DN.
C24_MissingIssuerScoresThreeTenths ==
    \A r \in Runs : pc[r] = "completed" =>
        \A i \in DOMAIN df[r].frame :
            df[r].frame[i].issuer_dn = ""
                => df[r].values[i].issuer_anomaly_score = (3 * ScoreOne) \div 10

\* C25: the proxy anomaly rate of every issuer group lies in [0, 1], both
\* as the issuer_anomaly_rate feature and as anomaly_proxy of the profile.
C25_ProxyRateInUnitRange ==
    \A r \in Runs : pc[r] = "completed" =>
        /\ \A p \in df[r].profiles : InUnitRange(p[2].anomaly_proxy)
        /\ \A i \in DOMAIN df[r].frame : InUnitRange(df[r].issuer_anomaly_rate[i])

\* The feature matrix a run stored, row by row.
StoredFeatures(r) == [i \in DOMAIN df[r].values |-> df[r].values[i].feature_vector]

\* Some feature column of the run's rows has a non-zero MAD.
SomeMadNonZero(r) ==
    LET features == StoredFeatures(r)
        idx == DOMAIN df[r].values
    IN \E j \in Columns(features, idx) :
        Median2([k \in idx |-> AbsDev2(features, idx, k, j)], idx) # 0

\* C26: for a type subset smaller than its min_samples with non-zero MADs
\* the fallback gives every row a combined score in [0, 1] with
\* isolation_forest_score = lof_score = combined, at least one row scores
\* exactly 0 and at least one exactly 1.
C26_FallbackReachesBothEnds ==
    \A r \in Runs :
        (/\ pc[r] = "completed"
         /\ UniqueTypes(df[r].frame) \cap FittedTypes(df[r].frame) = {}
         /\ SomeMadNonZero(r))
            => /\ \A i \in DOMAIN df[r].values :
                    /\ InUnitRange(df[r].values[i].anomaly_score)
                    /\ df[r].values[i].isolation_forest_score = df[r].values[i].anomaly_score
                    /\ df[r].values[i].lof_score = df[r].values[i].anomaly_score
               /\ \E i \in DOMAIN df[r].values : df[r].values[i].anomaly_score = 0
               /\ \E i \in DOMAIN df[r].values : df[r].values[i].anomaly_score = ScoreOne

\* The first position of fingerprint fp in the query result raw.
FirstIndex(raw, fp) ==
    CHOOSE k \in 1..Len(raw) :
        /\ raw[k].fingerprint_sha256 = fp
        /\ \A q \in 1..(k - 1) : raw[q].fingerprint_sha256 # fp

\* The values a run writes for row i of frame, computed for that row alone
\* from the frame: its features, its score within the rows of its type, its
\* structural, issuer and risk scores.
ExpectedValues(r, frame, features, profiles, now, i) ==
    ResultRow(r,
              ScoreRow(frame, features, profiles, now,
                       ModelOutput(Len(frame), 0, 0), i),
              now, model_version)

\* C27: rows reach the writer in the loader's order and stay aligned: the
\* frame is the query result without its repeated fingerprints, in order,
\* and when a run has completed (and none after it) the stored row of every
\* fingerprint of the frame carries the feature vector, scores, explanations
\* and risk values computed from the loaded row with that fingerprint.
C27_RowsStayAligned ==
    \A r \in Runs :
        (pc[r] = "completed" /\ \A q \in Runs : q > r => pc[q] = "idle") =>
            LET raw == df[r].raw
                frame == df[r].frame
                now == df[r].now
                features == SubSeq(FeatureMatrix(frame, now), 1, Len(frame))
                profiles == build_issuer_profiles(frame)
            IN /\ {frame[i].fingerprint_sha256 : i \in DOMAIN frame}
                    = {raw[k].fingerprint_sha256 : k \in DOMAIN raw}
               /\ \A i \in DOMAIN frame :
                    /\ frame[i] = raw[FirstIndex(raw, frame[i].fingerprint_sha256)]
                    /\ \A j \in DOMAIN frame :
                        i < j => FirstIndex(raw, frame[i].fingerprint_sha256)
                                    < FirstIndex(raw, frame[j].fingerprint_sha256)
                    /\ df[r].values[i].certificate_fingerprint
                            = frame[i].fingerprint_sha256
                    /\ RowsOf(store, frame[i].fingerprint_sha256) # {}
                    /\ LET expected == ExpectedValues(r, frame, features, profiles, now, i)
                       IN \A row \in RowsOf(store, frame[i].fingerprint_sha256) :
                            \A c \in DOMAIN row \ KeptOnConflict :
                                row[c] = expected[c]

\* C27 witness: a run over a query result with a repeated certificate and
\* two types has completed, and a row that is neither at its position in
\* the query result nor at its position within its type is stored with a
\* score of its own.
C27_Witness ==
    \E r \in Runs :
        /\ pc[r] = "completed"
        /\ Len(df[r].raw) > Len(df[r].frame)
        /\ Cardinality(UniqueTypes(df[r].frame)) = 2
        /\ \E i \in DOMAIN df[r].frame :
            /\ df[r].frame[i] # df[r].raw[i]
            /\ df[r].frame[i].fingerprint_sha256 # i
            /\ \E k \in 1..(i - 1) :
                df[r].frame[k].certificate_type # df[r].frame[i].certificate_type
            /\ \E row \in store :
                /\ row.certificate_fingerprint = df[r].frame[i].fingerprint_sha256
                /\ row.anomaly_score > 0
                /\ row.anomaly_score = df[r].values[i].anomaly_score
                /\ \E k \in DOMAIN df[r].values :
                    df[r].values[k].anomaly_score # row.anomaly_score

\* C28: in every reachable job state, over any sequence of runs on
\* populations of whatever sizes, 0 <= processed_certificates <= total_certificates.
C28_ProcessedWithinTotal ==
    /\ 0 <= _job_status.processed_certificates
    /\ _job_status.processed_certificates <= _job_status.total_certificates

\* C29: in every reachable job state error_message is set exactly when
\* status is FAILED.
C29_ErrorOnlyWhenFailed ==
    (_job_status.error_message # NoError) <=> (_job_status.status = "FAILED")

\* The run that the latest accepted start call started, runs being started
\* by start calls only and in increasing order.
LatestStarted == CHOOSE r \in Runs \ IdleRuns : \A q \in Runs \ IdleRuns : q <= r

\* C30: once a start call has returned accepted, the job state is that of
\* the run it started: RUNNING or that run's terminal status, never IDLE
\* and never the record of an earlier run.
C30_StatusIsOfAcceptedRun ==
    response = "accepted" =>
        /\ _job_status.status \in {"RUNNING", "COMPLETED", "FAILED"}
        /\ _job_status.started_at = LatestStarted

====
